---- MODULE Spec2Model ----
(***************************************************************************)
(* Lifetime examples of src/elision_rules.rs and                           *)
(* src/generic_lifetimes_traits.rs.                                        *)
(*                                                                         *)
(* Two things are modelled.                                                *)
(*  - The executable functions longest_a and longest_with_an_announcement, *)
(*    on byte strings, as called from the two main functions.              *)
(*  - The reference-scope check that the source describes in its comments  *)
(*    (the three elision rules, the substitution of the overlap of the     *)
(*    argument scopes for a shared lifetime parameter, the struct that     *)
(*    cannot outlive its field, the 'static lifetime), run as the check    *)
(*    Unannotated -> Annotated -> Accepted | Rejected of one declaration.  *)
(***************************************************************************)
EXTENDS Integers, Sequences, FiniteSets, TLC

VARIABLES
    phase,      \* position of the check of the declaration
    decl,       \* the declaration as written
    ann,        \* the declaration with its lifetime parameters, rewritten by inference
    site,       \* the concrete call / construction site given to the verifier
    err,        \* the error of a rejected check
    horizon,    \* last declaration-order position of the program being checked
    x, y,       \* the two string arguments
    announcement, \* the third argument of longest_with_an_announcement
    resA,       \* what longest_a returned
    resW,       \* what longest_with_an_announcement returned
    out         \* lines printed by longest_with_an_announcement

vars == <<phase, decl, ann, site, err, horizon, x, y, announcement, resA, resW, out>>

checkVars == <<phase, decl, ann, site, err, horizon>>
fnVars == <<x, y, announcement, resA, resW, out>>

----------------------------------------------------------------------------
(* Bounds *)

MaxParams == 2      \* reference parameters of a signature, receiver not counted
NumNames == 2       \* explicit lifetime names a signature may use: 'a, 'b
MaxPos == 4         \* last position of a generic program
MainLen == 10       \* last position of the program of main
FairPos == 2        \* last position of a generic program checked to its end
MaxLen == 3         \* longest string
NumChars == 2       \* distinct bytes in a string
NumAnn == 2         \* distinct announcement values

----------------------------------------------------------------------------
(* Lifetime parameters of a signature *)

\* &i32: a reference written without a lifetime parameter
Elided == 0
\* i32: a type that is not a reference
NotRef == 0 - 1
\* no receiver in the signature
NoRecv == 0

\* &'a i32: the explicit names 'a, 'b are 1..NumNames
ExplicitNames == 1..NumNames

\* the parameter the 1st rule invents for input number i (0 is the receiver)
Fresh(i) == NumNames + 1 + i

Max(S) == CHOOSE m \in S : \A n \in S : n <= m
Min(S) == CHOOSE m \in S : \A n \in S : m <= n

ParamLists == UNION {[1..n -> 0..NumNames] : n \in 0..MaxParams}

\* function and method signatures; an explicit lifetime on the return is
\* one that an input declares, as in all signatures of the source
Signatures ==
    {d \in [kind : {"fn", "method"}, params : ParamLists, ret : NotRef..NumNames] :
        d.ret > Elided => \E i \in 1..Len(d.params) : d.params[i] = d.ret}

\* fn longest (x: &str, y: &str) -> &str
LongestSig == [kind |-> "fn", params |-> <<Elided, Elided>>, ret |-> Elided]
\* fn longest_a <'a> (x: &'a str, y: &'a str) -> &'a str
LongestASig == [kind |-> "fn", params |-> <<1, 1>>, ret |-> 1]
\* fn longest_with_an_announcement <'a, T> (x: &'a str, y: &'a str, ann: T) -> &'a str
LongestWithAnAnnouncementSig == [kind |-> "fn", params |-> <<1, 1>>, ret |-> 1]
\* struct ImportantExcerpt <'a> { part: &'a str }
ImportantExcerpt == [kind |-> "struct", params |-> <<1>>, ret |-> NotRef]
\* fn first_word (s: &str) -> &str
FirstWordSig == [kind |-> "fn", params |-> <<Elided>>, ret |-> Elided]
\* fn level (&self) -> i32
LevelSig == [kind |-> "method", params |-> <<>>, ret |-> NotRef]
\* fn announce_and_return_part (&self, announcement: &str) -> &str
AnnounceAndReturnPartSig == [kind |-> "method", params |-> <<Elided>>, ret |-> Elided]

MainDecls ==
    {LongestSig, LongestASig, LongestWithAnAnnouncementSig, ImportantExcerpt,
     FirstWordSig, LevelSig, AnnounceAndReturnPartSig}

Decls == Signatures \cup {ImportantExcerpt}

\* the declaration as written: the receiver &self carries no lifetime
AsWritten(d) == [recv |-> NoRecv, params |-> d.params, ret |-> d.ret]

\* the lifetime parameter of input i of an annotated signature (0 is the receiver)
NameOf(a, i) == IF i = 0 THEN a.recv ELSE a.params[i]

\* the input lifetime parameters of an annotated signature
InputLifetimes(a) ==
    {a.params[i] : i \in 1..Len(a.params)} \cup (IF a.recv = NoRecv THEN {} ELSE {a.recv})

\* 1st rule: each parameter that is a reference gets its own lifetime parameter
Rule1(d) ==
    [recv |-> IF d.kind = "method" THEN Fresh(0) ELSE NoRecv,
     params |-> [i \in 1..Len(d.params) |->
                    IF d.params[i] = Elided THEN Fresh(i) ELSE d.params[i]],
     ret |-> d.ret]

\* the 2nd rule giving the output a lifetime parameter of its own
Rule2_OwnParameter(a) ==
    IF a.ret = Elided /\ Cardinality(InputLifetimes(a)) = 1
    THEN [a EXCEPT !.ret = Fresh(Len(a.params) + 1)]
    ELSE a

\* the 2nd rule not counting the input lifetime parameters
Rule2_FirstInput(a) ==
    IF a.ret = Elided /\ Cardinality(InputLifetimes(a)) >= 1
    THEN [a EXCEPT !.ret = Min(InputLifetimes(a))]
    ELSE a

\* 2nd rule: exactly one input lifetime parameter is assigned to all output
\* lifetime parameters
Rule2(a) ==
    IF a.ret = Elided /\ Cardinality(InputLifetimes(a)) = 1
    THEN [a EXCEPT !.ret = CHOOSE l \in InputLifetimes(a) : TRUE]
    ELSE a

\* the 3rd rule taking the lifetime of the last input instead of that of self
Rule3_LastInput(a, d) ==
    IF d.ret = Elided /\ a.recv # NoRecv
    THEN [a EXCEPT !.ret = NameOf(a, Len(a.params))]
    ELSE a

\* 3rd rule: with &self, the lifetime of self is assigned to all output
\* lifetime parameters
Rule3(a, d) ==
    IF d.ret = Elided /\ a.recv # NoRecv
    THEN [a EXCEPT !.ret = a.recv]
    ELSE a

\* what the compiler does with a signature: the three rules in order
Infer(d) ==
    IF d.kind = "struct" THEN AsWritten(d) ELSE Rule3(Rule2(Rule1(d)), d)

\* looking at the inputs only
FullyAnnotated_Inputs(a) ==
    \A i \in 1..Len(a.params) : a.params[i] # Elided

\* all the references in the signature have lifetimes
FullyAnnotated(a) ==
    /\ a.ret # Elided
    /\ \A i \in 1..Len(a.params) : a.params[i] # Elided

----------------------------------------------------------------------------
(* Scopes *)

\* a binding: declared at start, its block closes at close
Bindings(h) ==
    {b \in [start : 0..h, close : 0..h, static : BOOLEAN] : b.start <= b.close}

NoBinding == [start |-> 0, close |-> 0, static |-> FALSE]

\* 'static: the reference can live for the entire duration of the program
StaticEnd == horizon + 1

\* the end of the scope taken from the block, 'static or not
ScopeEnd_Block(b) == b.close

\* where the scope of a binding ends
ScopeEnd(b) == IF b.static THEN StaticEnd ELSE b.close

\* the larger of the lifetimes instead of the smaller
Intersect_Larger(S) ==
    [start |-> IF S = {} THEN 0 ELSE Max({b.start : b \in S}),
     end |-> IF S = {} THEN StaticEnd ELSE Max({ScopeEnd(b) : b \in S})]

\* the concrete lifetime substituted for a lifetime parameter: the part of
\* the scopes of the arguments that overlaps, the smaller of the lifetimes
Intersect(S) ==
    [start |-> IF S = {} THEN 0 ELSE Max({b.start : b \in S}),
     end |-> IF S = {} THEN StaticEnd ELSE Min({ScopeEnd(b) : b \in S})]

\* comparing where the instance is declared instead of where it ends
Outlives_Declared(inst, src) == inst.start > ScopeEnd(src)

\* an instance of the struct can't outlive the reference it holds
Outlives(inst, src) == ScopeEnd(inst) > ScopeEnd(src)

\* the inputs a returned or stored reference may be derived from: those
\* that share its lifetime parameter
Sources(a, d) ==
    IF d.kind = "struct" THEN {1}
    ELSE IF a.ret = NotRef \/ a.ret = Elided THEN {}
    ELSE {i \in 0..Len(a.params) : NameOf(a, i) = a.ret}

NoSite == [scopes |-> <<>>, use |-> 0, inst |-> NoBinding]

\* concrete sites: the arguments are declared before the call and the
\* result is used after it; the struct instance is declared after its source
Sites(a, d, h) ==
    IF d.kind = "struct"
    THEN {s \in [scopes : [Sources(a, d) -> Bindings(h)], use : {0},
                 inst : {b \in Bindings(h) : ~b.static}] :
            s.scopes[1].start <= s.inst.start}
    ELSE {s \in [scopes : [Sources(a, d) -> Bindings(h)], use : 0..h, inst : {NoBinding}] :
            \A i \in Sources(a, d) : s.scopes[i].start <= s.use}

NoError == [kind |-> "none", binding |-> 0, used_until |-> 0, valid_until |-> 0]

AmbiguousLifetimeError ==
    [kind |-> "AmbiguousLifetimeError", binding |-> 0, used_until |-> 0, valid_until |-> 0]

DanglingReferenceError(b, u, v) ==
    [kind |-> "DanglingReferenceError", binding |-> b, used_until |-> u, valid_until |-> v]

\* the source whose scope ends first
FirstToEnd(s) ==
    Min({i \in DOMAIN s.scopes :
            \A j \in DOMAIN s.scopes : ScopeEnd(s.scopes[i]) <= ScopeEnd(s.scopes[j])})

\* the verdict on a function or method call: the use of the result lies in
\* the concrete lifetime of the returned reference
VerifyCall(a, d, s) ==
    LET lt == Intersect({s.scopes[i] : i \in DOMAIN s.scopes})
    IN  IF lt.start <= s.use /\ s.use < lt.end
        THEN NoError
        ELSE DanglingReferenceError(FirstToEnd(s), s.use, lt.end)

\* the verdict on a struct construction
VerifyStruct(a, d, s) ==
    IF Outlives(s.inst, s.scopes[1]) \/ s.inst.start < s.scopes[1].start
    THEN DanglingReferenceError(1, s.inst.close, ScopeEnd(s.scopes[1]))
    ELSE NoError

Verify(a, d, s) ==
    IF d.kind = "struct" THEN VerifyStruct(a, d, s) ELSE VerifyCall(a, d, s)

----------------------------------------------------------------------------
(* The check of one declaration *)

\* byte strings
Strings == UNION {[1..n -> 1..NumChars] : n \in 0..MaxLen}

NoString == <<>>
NoResult == [ref |-> "none", val |-> <<>>]

\* >= in place of >
longest_a_ge(px, py) ==
    IF Len(px) >= Len(py) THEN [ref |-> "x", val |-> px] ELSE [ref |-> "y", val |-> py]

\* if x.len() > y.len() { x } else { y }; the result is one of the two references
longest_a(px, py) ==
    IF Len(px) > Len(py) THEN [ref |-> "x", val |-> px] ELSE [ref |-> "y", val |-> py]

\* >= in place of >
longest_with_an_announcement_ge(px, py, pann) ==
    IF Len(px) >= Len(py) THEN [ref |-> "x", val |-> px] ELSE [ref |-> "y", val |-> py]

\* the same comparison after the announcement is printed
longest_with_an_announcement(px, py, pann) ==
    IF Len(px) > Len(py) THEN [ref |-> "x", val |-> px] ELSE [ref |-> "y", val |-> py]

FnIdle ==
    /\ x = NoString /\ y = NoString /\ announcement = 0
    /\ resA = NoResult /\ resW = NoResult /\ out = <<>>

Init ==
    /\ phase = "Unannotated"
    /\ decl \in Decls
    /\ ann = AsWritten(decl)
    /\ site = NoSite
    /\ err = NoError
    /\ horizon = MaxPos
    /\ FnIdle

InitMain ==
    /\ phase = "Unannotated"
    /\ decl \in MainDecls
    /\ ann = AsWritten(decl)
    /\ site = NoSite
    /\ err = NoError
    /\ horizon = MainLen
    /\ FnIdle

InitFair ==
    /\ phase = "Unannotated"
    /\ decl \in Decls
    /\ ann = AsWritten(decl)
    /\ site = NoSite
    /\ err = NoError
    /\ horizon = FairPos
    /\ FnIdle

ElisionInference ==
    /\ phase = "Unannotated"
    /\ ann' = Infer(decl)
    /\ IF FullyAnnotated(ann')
       THEN phase' = "Annotated" /\ err' = NoError
       ELSE phase' = "Rejected" /\ err' = AmbiguousLifetimeError
    /\ UNCHANGED <<decl, site, horizon>>
    /\ UNCHANGED fnVars

ValidityVerifier ==
    /\ phase = "Annotated"
    /\ site' \in Sites(ann, decl, horizon)
    /\ err' = Verify(ann, decl, site')
    /\ phase' = IF err'.kind = "none" THEN "Accepted" ELSE "Rejected"
    /\ UNCHANGED <<decl, ann, horizon>>
    /\ UNCHANGED fnVars

Next == ElisionInference \/ ValidityVerifier

Spec == Init /\ [][Next]_vars

SpecMain == InitMain /\ [][Next]_vars

\* each check is a bounded, terminating computation
FairSpec == InitFair /\ [][Next]_vars /\ WF_vars(Next)

----------------------------------------------------------------------------
(* The calls of the two main functions *)

InitFn ==
    /\ x \in Strings
    /\ y \in Strings
    /\ announcement \in 1..NumAnn
    /\ resA = NoResult
    /\ resW = NoResult
    /\ out = <<>>
    /\ phase = "Unannotated"
    /\ decl = LongestASig
    /\ ann = AsWritten(decl)
    /\ site = NoSite
    /\ err = NoError
    /\ horizon = MainLen

\* let result= longest_a (string1.as_str(), string2);
CallLongestA ==
    /\ resA = NoResult
    /\ resA' = longest_a(x, y)
    /\ UNCHANGED <<x, y, announcement, resW, out>>
    /\ UNCHANGED checkVars

\* let result = longest_with_an_announcement(string1.as_str(), string2, ann);
CallLongestWithAnAnnouncement ==
    /\ resW = NoResult
    /\ out' = Append(out, announcement)
    /\ resW' = longest_with_an_announcement(x, y, announcement)
    /\ UNCHANGED <<x, y, announcement, resA>>
    /\ UNCHANGED checkVars

NextFn == CallLongestA \/ CallLongestWithAnAnnouncement

SpecFn == InitFn /\ [][NextFn]_vars

----------------------------------------------------------------------------
(* Properties *)

Terminal == {"Accepted", "Rejected"}

\* C1: a signature with exactly one reference input, no receiver and an
\* unannotated reference output gets, on every output reference, the lifetime
\* parameter of that input (the one the 1st rule gave it when the input was
\* unannotated), and inference does not fail.
C1_Rule2 ==
    (phase # "Unannotated" /\ decl.kind = "fn" /\ Len(decl.params) = 1 /\ decl.ret = Elided)
        => /\ ann.ret = ann.params[1]
           /\ ann.ret # Elided
           /\ decl.params[1] = Elided => ann.params[1] = Fresh(1)
           /\ decl.params[1] # Elided => ann.params[1] = decl.params[1]
           /\ err.kind # "AmbiguousLifetimeError"

\* first_word (s: &str) -> &str has become first_word <'a> (s: &'a str) -> &'a str
C1_Witness ==
    /\ phase = "Annotated"
    /\ decl = FirstWordSig
    /\ ann.params[1] = Fresh(1)
    /\ ann.ret = Fresh(1)

\* C2: a method signature with a receiver and at least one other reference
\* input gets, on every unannotated output reference, the lifetime parameter of
\* the receiver, which is the parameter of no other input, and inference does
\* not fail.
C2_Rule3 ==
    (phase # "Unannotated" /\ decl.kind = "method" /\ Len(decl.params) >= 1
        /\ decl.ret = Elided)
        => /\ ann.recv # NoRecv
           /\ ann.ret = ann.recv
           /\ \A i \in 1..Len(ann.params) : ann.ret # ann.params[i]
           /\ err.kind # "AmbiguousLifetimeError"

\* announce_and_return_part (&self, announcement: &str) -> &str is annotated
C2_Witness ==
    /\ phase = "Annotated"
    /\ decl = AnnounceAndReturnPartSig
    /\ ann.ret = ann.recv
    /\ ann.ret # ann.params[1]

\* C3 as stated: every signature with two or more non-receiver reference
\* inputs and an unannotated reference return fails with AmbiguousLifetimeError.
C3_Original ==
    (phase # "Unannotated" /\ decl.kind # "struct" /\ Len(decl.params) >= 2
        /\ decl.ret = Elided)
        => (phase = "Rejected" /\ err.kind = "AmbiguousLifetimeError")

\* two inputs that the signature does not give the same explicit lifetime
TwoInputLifetimes(d) ==
    \E i, j \in 1..Len(d.params) :
        i # j /\ (d.params[i] = Elided \/ d.params[i] # d.params[j])

\* C3 amended: every function signature without a receiver, whose reference
\* inputs carry two or more distinct lifetime parameters after the 1st rule and
\* whose reference return is unannotated, fails with AmbiguousLifetimeError.
C3_Ambiguous ==
    (phase # "Unannotated" /\ decl.kind = "fn" /\ TwoInputLifetimes(decl)
        /\ decl.ret = Elided)
        => (phase = "Rejected" /\ err.kind = "AmbiguousLifetimeError" /\ ann.ret = Elided)

\* longest (x: &str, y: &str) -> &str is rejected
C3_Witness ==
    /\ decl = LongestSig
    /\ phase = "Rejected"
    /\ err.kind = "AmbiguousLifetimeError"
    /\ ann.params = <<Fresh(1), Fresh(2)>>

\* a use at position p lies in the scope of binding b
InScope(p, b) == b.start <= p /\ (b.static \/ p < b.close)

\* C4: at a call of longest_a the use of the result is Accepted exactly when
\* its position lies in [max(start1,start2), min(end1,end2)), and is Rejected
\* with DanglingReferenceError otherwise; with [0,10) and [3,6) a use at 5 is
\* Accepted and a use at 7 is Rejected.
C4_Intersection ==
    (phase \in Terminal /\ decl = LongestASig)
        => /\ phase = "Accepted" <=> (InScope(site.use, site.scopes[1])
                                        /\ InScope(site.use, site.scopes[2]))
           /\ phase = "Rejected" => err.kind = "DanglingReferenceError"
           /\ (/\ site.scopes[1] = [start |-> 0, close |-> 10, static |-> FALSE]
               /\ site.scopes[2] = [start |-> 3, close |-> 6, static |-> FALSE])
                => /\ site.use \in 3..5 <=> phase = "Accepted"
                   /\ site.use = 7 => phase = "Rejected"
                   /\ phase = "Rejected" => err.valid_until = 6

\* the use at 7 of the result of longest_a on [0,10) and [3,6)
C4_Witness ==
    /\ decl = LongestASig
    /\ phase = "Rejected"
    /\ site.scopes[1] = [start |-> 0, close |-> 10, static |-> FALSE]
    /\ site.scopes[2] = [start |-> 3, close |-> 6, static |-> FALSE]
    /\ site.use = 7

\* C5: the scope of a 'static binding ends after every finite scope end, and
\* a rejection never names a 'static source: a site whose sources are all
\* 'static is not rejected, and a DanglingReferenceError names a source that
\* is not 'static.
C5_Static ==
    (phase \in Terminal /\ err.kind # "AmbiguousLifetimeError")
        => /\ \A i \in DOMAIN site.scopes :
                site.scopes[i].static =>
                    /\ \A p \in 0..horizon : ScopeEnd(site.scopes[i]) > p
                    /\ \A j \in DOMAIN site.scopes :
                        ~site.scopes[j].static =>
                            ScopeEnd(site.scopes[i]) > ScopeEnd(site.scopes[j])
           /\ (\A i \in DOMAIN site.scopes : site.scopes[i].static)
                => phase = "Accepted"
           /\ err.kind = "DanglingReferenceError"
                => /\ err.binding \in DOMAIN site.scopes
                   /\ ~site.scopes[err.binding].static

\* a rejected call with a 'static source and another source, the 'static one
\* in a block that closed before the use
C5_Witness ==
    /\ phase = "Rejected"
    /\ err.kind = "DanglingReferenceError"
    /\ \E i \in DOMAIN site.scopes :
        /\ site.scopes[i].static
        /\ site.scopes[i].close < site.use
        /\ i < err.binding

\* C6: constructing ImportantExcerpt is Rejected with DanglingReferenceError
\* when the scope of the source ends before the last use of the instance, and
\* Accepted when the scope of the instance is contained in the scope of the
\* source; a source scoped [0,4) with the instance used until 6 is Rejected.
C6_StructField ==
    (phase \in Terminal /\ decl.kind = "struct")
        => /\ (~site.scopes[1].static /\ site.scopes[1].close < site.inst.close)
                => (phase = "Rejected" /\ err.kind = "DanglingReferenceError")
           /\ (/\ site.scopes[1].start <= site.inst.start
               /\ (site.scopes[1].static \/ site.inst.close <= site.scopes[1].close))
                => phase = "Accepted"
           /\ (/\ site.scopes[1] = [start |-> 0, close |-> 4, static |-> FALSE]
               /\ site.inst.close = 6)
                => phase = "Rejected"

\* ImportantExcerpt built from a source scoped [0,4) and used until 6
C6_Witness ==
    /\ decl = ImportantExcerpt
    /\ phase = "Rejected"
    /\ site.scopes[1] = [start |-> 0, close |-> 4, static |-> FALSE]
    /\ site.inst.close = 6
    /\ err = DanglingReferenceError(1, 6, 4)

\* one step of a check in the order Unannotated -> Annotated -> Accepted | Rejected
OrderedStep ==
    \/ /\ phase = "Unannotated"
       /\ phase' = "Annotated"
       /\ ann'.ret # Elided
       /\ \A i \in 1..Len(ann'.params) : ann'.params[i] # Elided
    \/ /\ phase = "Unannotated"
       /\ phase' = "Rejected"
       /\ err'.kind = "AmbiguousLifetimeError"
    \/ /\ phase = "Annotated"
       /\ ann.ret # Elided
       /\ \A i \in 1..Len(ann.params) : ann.params[i] # Elided
       /\ phase' \in Terminal
       /\ ann' = ann

\* C8: a check starts in Unannotated, the verifier runs only on a fully
\* annotated declaration, nothing leaves Accepted or Rejected, a failed
\* inference ends the check as Rejected, and every check eventually reaches
\* Accepted or Rejected.
C8_Order ==
    /\ phase = "Unannotated"
    /\ [][OrderedStep]_vars
    /\ <>(phase \in Terminal)

\* a check that went through inference and the verifier
C8_Witness ==
    /\ phase = "Rejected"
    /\ err.kind = "DanglingReferenceError"
    /\ ann.ret # Elided
    /\ decl.ret = Elided

\* C9: longest_a returns one of its two arguments unchanged, x exactly when
\* len(x) > len(y) and y otherwise, also on equal lengths, so the length of
\* the result is max(len(x), len(y)).
C9_LongestA ==
    resA # NoResult
        => /\ resA.ref \in {"x", "y"}
           /\ resA.ref = "x" <=> Len(x) > Len(y)
           /\ resA.ref = "x" => resA.val = x
           /\ resA.ref = "y" => resA.val = y
           /\ Len(resA.val) = Max({Len(x), Len(y)})

\* a tie between two different strings returned the second argument
C9_Witness ==
    /\ resA # NoResult
    /\ Len(x) = Len(y)
    /\ x # y
    /\ resA.ref = "y"
    /\ resA.val = y

\* C10: longest_with_an_announcement returns the reference longest_a returns,
\* whatever the announcement, which is only printed.
C10_SameAsLongestA ==
    (resA # NoResult /\ resW # NoResult)
        => /\ resW = resA
           /\ out = <<announcement>>

\* both were called on a tie between two different strings
C10_Witness ==
    /\ resA # NoResult
    /\ resW # NoResult
    /\ Len(x) = Len(y)
    /\ x # y
    /\ resW.ref = "y"
    /\ out = <<announcement>>

====
